---- MODULE Spec2Model ----
(***************************************************************************)
(* Morse translator: the audio scheduler of src/audio/morsePlayer.js, the   *)
(* codec of src/translator/morseCodec.js and the table of morseData.js.     *)
(* Strings are sequences of one-character strings; times are milliseconds.  *)
(***************************************************************************)
EXTENDS Integers, Sequences, FiniteSets, TLC

(***************************************************************************)
(* morseData.js                                                             *)
(***************************************************************************)

\* Keys of MORSE_CODE_MAP in property order, the order Object.keys and
\* Object.entries enumerate them in: the integer keys "0".."9" ascending,
\* then the other keys in the order the object literal lists them.
MORSE_KEYS ==
  <<
    "0", "1", "2", "3", "4", "5", "6", "7", "8", "9",
    "A", "B", "C", "D", "E", "F", "G", "H", "I",
    "J", "K", "L", "M", "N", "O", "P", "Q", "R",
    "S", "T", "U", "V", "W", "X", "Y", "Z",
    ".", ",", "?", "'", "!", "/", "(", ")", "&",
    ":", ";", "=", "+", "-", "_", "\"", "$", "@"
  >>

MORSE_CODE_MAP ==
    "A" :> <<".", "-">> @@
    "B" :> <<"-", ".", ".", ".">> @@
    "C" :> <<"-", ".", "-", ".">> @@
    "D" :> <<"-", ".", ".">> @@
    "E" :> <<".">> @@
    "F" :> <<".", ".", "-", ".">> @@
    "G" :> <<"-", "-", ".">> @@
    "H" :> <<".", ".", ".", ".">> @@
    "I" :> <<".", ".">> @@
    "J" :> <<".", "-", "-", "-">> @@
    "K" :> <<"-", ".", "-">> @@
    "L" :> <<".", "-", ".", ".">> @@
    "M" :> <<"-", "-">> @@
    "N" :> <<"-", ".">> @@
    "O" :> <<"-", "-", "-">> @@
    "P" :> <<".", "-", "-", ".">> @@
    "Q" :> <<"-", "-", ".", "-">> @@
    "R" :> <<".", "-", ".">> @@
    "S" :> <<".", ".", ".">> @@
    "T" :> <<"-">> @@
    "U" :> <<".", ".", "-">> @@
    "V" :> <<".", ".", ".", "-">> @@
    "W" :> <<".", "-", "-">> @@
    "X" :> <<"-", ".", ".", "-">> @@
    "Y" :> <<"-", ".", "-", "-">> @@
    "Z" :> <<"-", "-", ".", ".">> @@
    "0" :> <<"-", "-", "-", "-", "-">> @@
    "1" :> <<".", "-", "-", "-", "-">> @@
    "2" :> <<".", ".", "-", "-", "-">> @@
    "3" :> <<".", ".", ".", "-", "-">> @@
    "4" :> <<".", ".", ".", ".", "-">> @@
    "5" :> <<".", ".", ".", ".", ".">> @@
    "6" :> <<"-", ".", ".", ".", ".">> @@
    "7" :> <<"-", "-", ".", ".", ".">> @@
    "8" :> <<"-", "-", "-", ".", ".">> @@
    "9" :> <<"-", "-", "-", "-", ".">> @@
    "." :> <<".", "-", ".", "-", ".", "-">> @@
    "," :> <<"-", "-", ".", ".", "-", "-">> @@
    "?" :> <<".", ".", "-", "-", ".", ".">> @@
    "'" :> <<".", "-", "-", "-", "-", ".">> @@
    "!" :> <<"-", ".", "-", ".", "-", "-">> @@
    "/" :> <<"-", ".", ".", "-", ".">> @@
    "(" :> <<"-", ".", "-", "-", ".">> @@
    ")" :> <<"-", ".", "-", "-", ".", "-">> @@
    "&" :> <<".", "-", ".", ".", ".">> @@
    ":" :> <<"-", "-", "-", ".", ".", ".">> @@
    ";" :> <<"-", ".", "-", ".", "-", ".">> @@
    "=" :> <<"-", ".", ".", ".", "-">> @@
    "+" :> <<".", "-", ".", "-", ".">> @@
    "-" :> <<"-", ".", ".", ".", ".", "-">> @@
    "_" :> <<".", ".", "-", "-", ".", "-">> @@
    "\"" :> <<".", "-", ".", ".", "-", ".">> @@
    "$" :> <<".", ".", ".", "-", ".", ".", "-">> @@
    "@" :> <<".", "-", "-", ".", "-", ".">>

MORSE_TIMING ==
  [DIT |-> 1, DAH |-> 3, INTRA_CHAR_GAP |-> 1, INTER_CHAR_GAP |-> 3, WORD_GAP |-> 7]

getSupportedCharacters == MORSE_KEYS

TEXT_FROM_MORSE_NotSwapped == MORSE_CODE_MAP

\* Object.fromEntries over the entries in key order: for a pattern that two
\* keys share, the later key wins.
TEXT_FROM_MORSE ==
  [m \in {MORSE_CODE_MAP[MORSE_KEYS[i]] : i \in 1..Len(MORSE_KEYS)} |->
     LET last == CHOOSE i \in 1..Len(MORSE_KEYS) :
                   /\ MORSE_CODE_MAP[MORSE_KEYS[i]] = m
                   /\ \A j \in 1..Len(MORSE_KEYS) :
                        MORSE_CODE_MAP[MORSE_KEYS[j]] = m => j <= i
     IN  MORSE_KEYS[last]]

(***************************************************************************)
(* morseCodec.js                                                            *)
(***************************************************************************)

\* The value null / undefined of an input argument.
Null == <<"null">>

\* Characters the regular expression class \s and String.trim() treat as
\* white space, among those the model's inputs use.
WhiteSpace == {" ", "\t", "\n"}

LowerCase ==
  <<"a", "b", "c", "d", "e", "f", "g", "h", "i", "j", "k", "l", "m",
    "n", "o", "p", "q", "r", "s", "t", "u", "v", "w", "x", "y", "z">>

UpperCase ==
  <<"A", "B", "C", "D", "E", "F", "G", "H", "I", "J", "K", "L", "M",
    "N", "O", "P", "Q", "R", "S", "T", "U", "V", "W", "X", "Y", "Z">>

toUpperCase_Identity(s) == s

\* String.prototype.toUpperCase, character by character.
toUpperCase(s) ==
  [i \in 1..Len(s) |->
     IF \E k \in 1..Len(LowerCase) : LowerCase[k] = s[i]
     THEN UpperCase[CHOOSE k \in 1..Len(LowerCase) : LowerCase[k] = s[i]]
     ELSE s[i]]

\* s.trim() === ''
IsBlank(s) == \A i \in 1..Len(s) : s[i] \in WhiteSpace

\* String.prototype.trim
RECURSIVE trimStart(_)
trimStart(s) ==
  IF s # <<>> /\ Head(s) \in WhiteSpace THEN trimStart(Tail(s)) ELSE s

RECURSIVE trimEnd(_)
trimEnd(s) ==
  IF s # <<>> /\ s[Len(s)] \in WhiteSpace
  THEN trimEnd(SubSeq(s, 1, Len(s) - 1)) ELSE s

trim(s) == trimEnd(trimStart(s))

\* s.split(/\s+/): a run of white space is one separator; a leading or a
\* trailing run leaves an empty first or last piece.
RECURSIVE SplitWsFrom(_, _, _, _)
SplitWsFrom(s, i, cur, pieces) ==
  IF i > Len(s) THEN Append(pieces, cur)
  ELSE IF s[i] \in WhiteSpace
       THEN IF i > 1 /\ s[i - 1] \in WhiteSpace
            THEN SplitWsFrom(s, i + 1, cur, pieces)
            ELSE SplitWsFrom(s, i + 1, <<>>, Append(pieces, cur))
       ELSE SplitWsFrom(s, i + 1, Append(cur, s[i]), pieces)

SplitWs(s) == SplitWsFrom(s, 1, <<>>, <<>>)

\* s.split('/')
RECURSIVE SplitSlashFrom(_, _, _, _)
SplitSlashFrom(s, i, cur, pieces) ==
  IF i > Len(s) THEN Append(pieces, cur)
  ELSE IF s[i] = "/"
       THEN SplitSlashFrom(s, i + 1, <<>>, Append(pieces, cur))
       ELSE SplitSlashFrom(s, i + 1, Append(cur, s[i]), pieces)

SplitSlash(s) == SplitSlashFrom(s, 1, <<>>, <<>>)

\* Array.prototype.join
RECURSIVE Join(_, _)
Join(pieces, sep) ==
  IF pieces = <<>> THEN <<>>
  ELSE IF Len(pieces) = 1 THEN pieces[1]
  ELSE pieces[1] \o sep \o Join(Tail(pieces), sep)

SetAdd_KeepsDuplicates(list, x) == Append(list, x)

\* Set.prototype.add on a Set kept in insertion order.
SetAdd(list, x) ==
  IF \E i \in 1..Len(list) : list[i] = x THEN list ELSE Append(list, x)

\* The inner loop of translateToMorse over the characters of one word:
\* acc = [wordMorse, unsupportedChars].
RECURSIVE MorseOfWord(_, _, _)
MorseOfWord(word, i, acc) ==
  IF i > Len(word) THEN acc
  ELSE IF word[i] \in DOMAIN MORSE_CODE_MAP
       THEN MorseOfWord(word, i + 1,
              [acc EXCEPT !.wordMorse = Append(@, MORSE_CODE_MAP[word[i]])])
       ELSE MorseOfWord(word, i + 1,
              [acc EXCEPT !.unsupportedChars = SetAdd(@, word[i])])

\* The outer loop of translateToMorse over the words:
\* acc = [result, unsupportedChars].
RECURSIVE MorseOfWords(_, _, _)
MorseOfWords(words, w, acc) ==
  IF w > Len(words) THEN acc
  ELSE LET r == MorseOfWord(words[w], 1,
                  [wordMorse |-> <<>>, unsupportedChars |-> acc.unsupportedChars])
       IN  MorseOfWords(words, w + 1,
             [result |-> IF r.wordMorse # <<>>
                         THEN Append(acc.result, Join(r.wordMorse, <<" ">>))
                         ELSE acc.result,
              unsupportedChars |-> r.unsupportedChars])

\* translateToMorse keeping a word that holds no supported character.
translateToMorse_KeepsEmptyWords(input) ==
  LET normalized == toUpperCase(input)
      words      == SplitWs(normalized)
      r          == MorseOfWords(words, 1, [result |-> <<>>, unsupportedChars |-> <<>>])
      result     == [w \in 1..Len(words) |->
                       Join(MorseOfWord(words[w], 1,
                              [wordMorse |-> <<>>, unsupportedChars |-> <<>>]).wordMorse,
                            <<" ">>)]
  IN  [output           |-> Join(result, <<" ", "/", " ">>),
       errors           |-> IF r.unsupportedChars # <<>>
                            THEN << [kind |-> "Warning", what |-> r.unsupportedChars] >>
                            ELSE <<>>,
       unsupportedChars |-> r.unsupportedChars,
       isValid          |-> TRUE]

translateToMorse_SlashOnly(input) ==
  LET normalized == toUpperCase(input)
      words      == SplitWs(normalized)
      r          == MorseOfWords(words, 1, [result |-> <<>>, unsupportedChars |-> <<>>])
  IN  [output           |-> Join(r.result, <<"/">>),
       errors           |-> IF r.unsupportedChars # <<>>
                            THEN << [kind |-> "Warning", what |-> r.unsupportedChars] >>
                            ELSE <<>>,
       unsupportedChars |-> r.unsupportedChars,
       isValid          |-> TRUE]

translateToMorse(input) ==
  LET normalized == toUpperCase(input)
      words      == SplitWs(normalized)
      r          == MorseOfWords(words, 1, [result |-> <<>>, unsupportedChars |-> <<>>])
  IN  [output           |-> Join(r.result, <<" ", "/", " ">>),
       errors           |-> IF r.unsupportedChars # <<>>
                            THEN << [kind |-> "Warning", what |-> r.unsupportedChars] >>
                            ELSE <<>>,
       unsupportedChars |-> r.unsupportedChars,
       isValid          |-> TRUE]

\* The property names every plain object inherits from Object.prototype.
ObjectPrototypeKeys ==
  { <<"c", "o", "n", "s", "t", "r", "u", "c", "t", "o", "r">>,
    <<"t", "o", "S", "t", "r", "i", "n", "g">>,
    <<"t", "o", "L", "o", "c", "a", "l", "e", "S", "t", "r", "i", "n", "g">>,
    <<"v", "a", "l", "u", "e", "O", "f">>,
    <<"h", "a", "s", "O", "w", "n", "P", "r", "o", "p", "e", "r", "t", "y">>,
    <<"i", "s", "P", "r", "o", "t", "o", "t", "y", "p", "e", "O", "f">>,
    <<"p", "r", "o", "p", "e", "r", "t", "y", "I", "s", "E", "n", "u", "m", "e", "r", "a", "b", "l", "e">>,
    <<"_", "_", "p", "r", "o", "t", "o", "_", "_">>,
    <<"_", "_", "d", "e", "f", "i", "n", "e", "G", "e", "t", "t", "e", "r", "_", "_">>,
    <<"_", "_", "d", "e", "f", "i", "n", "e", "S", "e", "t", "t", "e", "r", "_", "_">>,
    <<"_", "_", "l", "o", "o", "k", "u", "p", "G", "e", "t", "t", "e", "r", "_", "_">>,
    <<"_", "_", "l", "o", "o", "k", "u", "p", "S", "e", "t", "t", "e", "r", "_", "_">> }

\* object[key] on a plain object: an own property, else a property
\* inherited from Object.prototype (a function or an object, which is truthy
\* and which join('') turns into its source text), else undefined.
Undefined == [truthy |-> FALSE]

Get(object, key) ==
  IF key \in DOMAIN object THEN [truthy |-> TRUE, value |-> object[key]]
  ELSE IF key \in ObjectPrototypeKeys
       THEN [truthy |-> TRUE, value |-> "[native code]"]
       ELSE Undefined

\* The inner loop of translateToText over the groups of one word:
\* acc = [wordChars, errors, isValid].
RECURSIVE TextOfWord(_, _, _)
TextOfWord(morseChars, i, acc) ==
  IF i > Len(morseChars) THEN acc
  ELSE LET morse == trim(morseChars[i])
       IN  IF morse = <<>> THEN TextOfWord(morseChars, i + 1, acc)
           ELSE IF Get(TEXT_FROM_MORSE, morse).truthy
                THEN TextOfWord(morseChars, i + 1,
                       [acc EXCEPT !.wordChars =
                          Append(@, Get(TEXT_FROM_MORSE, morse).value)])
                ELSE TextOfWord(morseChars, i + 1,
                       [wordChars |-> Append(acc.wordChars, "?"),
                        errors    |-> Append(acc.errors,
                                        [kind |-> "Invalid Morse sequence", what |-> morse]),
                        isValid   |-> FALSE])

\* The outer loop of translateToText over the words:
\* acc = [result, errors, isValid].
RECURSIVE TextOfWords(_, _, _)
TextOfWords(words, w, acc) ==
  IF w > Len(words) THEN acc
  ELSE LET word == trim(words[w])
       IN  IF word = <<>> THEN TextOfWords(words, w + 1, acc)
           ELSE LET r == TextOfWord(SplitWs(word), 1,
                           [wordChars |-> <<>>, errors |-> acc.errors,
                            isValid |-> acc.isValid])
                IN  TextOfWords(words, w + 1,
                      [result  |-> IF r.wordChars # <<>>
                                   THEN Append(acc.result, r.wordChars)
                                   ELSE acc.result,
                       errors  |-> r.errors,
                       isValid |-> r.isValid])

\* translateToText joining the decoded words with nothing between them.
translateToText_WordsGlued(input) ==
  LET r == TextOfWords(SplitSlash(input), 1,
             [result |-> <<>>, errors |-> <<>>, isValid |-> TRUE])
  IN  [output           |-> Join(r.result, <<>>),
       errors           |-> r.errors,
       unsupportedChars |-> <<>>,
       isValid          |-> r.isValid]

translateToText(input) ==
  LET r == TextOfWords(SplitSlash(input), 1,
             [result |-> <<>>, errors |-> <<>>, isValid |-> TRUE])
  IN  [output           |-> Join(r.result, <<" ">>),
       errors           |-> r.errors,
       unsupportedChars |-> <<>>,
       isValid          |-> r.isValid]

translate_EmptyCheckFirst(input, direction) ==
  LET in == IF input = Null THEN <<>> ELSE input
  IN  IF IsBlank(in)
      THEN [threw |-> FALSE, output |-> <<>>, errors |-> <<>>,
            unsupportedChars |-> <<>>, isValid |-> TRUE]
      ELSE IF direction # "toMorse" /\ direction # "toText"
           THEN [threw |-> TRUE, message |-> "Invalid direction"]
           ELSE IF direction = "toMorse"
                THEN [threw |-> FALSE] @@ translateToMorse(in)
                ELSE [threw |-> FALSE] @@ translateToText(in)

translate_NullThrows(input, direction) ==
  IF direction # "toMorse" /\ direction # "toText"
  THEN [threw |-> TRUE, message |-> "Invalid direction"]
  ELSE IF input = Null
       THEN [threw |-> TRUE, message |-> "TypeError"]
       ELSE IF IsBlank(input)
            THEN [threw |-> FALSE, output |-> <<>>, errors |-> <<>>,
                  unsupportedChars |-> <<>>, isValid |-> TRUE]
            ELSE IF direction = "toMorse"
                 THEN [threw |-> FALSE] @@ translateToMorse(input)
                 ELSE [threw |-> FALSE] @@ translateToText(input)

\* translate(input, direction): a record with threw = TRUE stands for the
\* thrown Error; the duration field of the result is not modelled.
translate(input, direction) ==
  IF direction # "toMorse" /\ direction # "toText"
  THEN [threw |-> TRUE, message |-> "Invalid direction"]
  ELSE LET in == IF input = Null THEN <<>> ELSE input
       IN  IF IsBlank(in)
           THEN [threw |-> FALSE, output |-> <<>>, errors |-> <<>>,
                 unsupportedChars |-> <<>>, isValid |-> TRUE]
           ELSE IF direction = "toMorse"
                THEN [threw |-> FALSE] @@ translateToMorse(in)
                ELSE [threw |-> FALSE] @@ translateToText(in)

\* /^c{n,}$/ once the length is known to be at least n.
AllOf(s, c) == \A i \in 1..Len(s) : s[i] = c

\* /^(ab){n,}$/
RepeatsPair(s, a, b, n) ==
  /\ Len(s) % 2 = 0
  /\ Len(s) >= 2 * n
  /\ \A i \in 1..Len(s) : s[i] = IF i % 2 = 1 THEN a ELSE b

validateMorse_SpaceIsContinuous(morseSequence) ==
  IF morseSequence = Null \/ morseSequence = <<>> THEN FALSE
  ELSE IF \E i \in 1..Len(morseSequence) :
            morseSequence[i] \notin {".", "-", "/"} \cup WhiteSpace
       THEN FALSE
       ELSE IF \A i \in 1..Len(morseSequence) : morseSequence[i] # "/"
            THEN IF \/ Len(morseSequence) >= 7 /\ AllOf(morseSequence, ".")
                    \/ Len(morseSequence) >= 6 /\ AllOf(morseSequence, "-")
                 THEN FALSE
                 ELSE IF \/ RepeatsPair(morseSequence, ".", "-", 6)
                         \/ RepeatsPair(morseSequence, "-", ".", 6)
                      THEN FALSE
                      ELSE Len(morseSequence) <= 9
            ELSE \A w \in 1..Len(SplitSlash(morseSequence)) :
                   LET codes == SelectSeq(SplitWs(trim(SplitSlash(morseSequence)[w])),
                                          LAMBDA c : c # <<>>)
                   IN  \A k \in 1..Len(codes) : Get(TEXT_FROM_MORSE, codes[k]).truthy

validateMorse_SixSymbols(morseSequence) ==
  IF morseSequence = Null \/ morseSequence = <<>> THEN FALSE
  ELSE IF \E i \in 1..Len(morseSequence) :
            morseSequence[i] \notin {".", "-", "/"} \cup WhiteSpace
       THEN FALSE
       ELSE IF /\ \A i \in 1..Len(morseSequence) : morseSequence[i] # " "
               /\ \A i \in 1..Len(morseSequence) : morseSequence[i] # "/"
            THEN IF \/ Len(morseSequence) >= 7 /\ AllOf(morseSequence, ".")
                    \/ Len(morseSequence) >= 6 /\ AllOf(morseSequence, "-")
                 THEN FALSE
                 ELSE IF \/ RepeatsPair(morseSequence, ".", "-", 6)
                         \/ RepeatsPair(morseSequence, "-", ".", 6)
                      THEN FALSE
                      ELSE Len(morseSequence) <= 6
            ELSE \A w \in 1..Len(SplitSlash(morseSequence)) :
                   LET codes == SelectSeq(SplitWs(trim(SplitSlash(morseSequence)[w])),
                                          LAMBDA c : c # <<>>)
                   IN  \A k \in 1..Len(codes) : Get(TEXT_FROM_MORSE, codes[k]).truthy

validateMorse(morseSequence) ==
  IF morseSequence = Null \/ morseSequence = <<>> THEN FALSE
  ELSE IF \E i \in 1..Len(morseSequence) :
            morseSequence[i] \notin {".", "-", "/"} \cup WhiteSpace
       THEN FALSE
       ELSE IF /\ \A i \in 1..Len(morseSequence) : morseSequence[i] # " "
               /\ \A i \in 1..Len(morseSequence) : morseSequence[i] # "/"
            THEN IF \/ Len(morseSequence) >= 7 /\ AllOf(morseSequence, ".")
                    \/ Len(morseSequence) >= 6 /\ AllOf(morseSequence, "-")
                 THEN FALSE
                 ELSE IF \/ RepeatsPair(morseSequence, ".", "-", 6)
                         \/ RepeatsPair(morseSequence, "-", ".", 6)
                      THEN FALSE
                      ELSE Len(morseSequence) <= 9
            ELSE \A w \in 1..Len(SplitSlash(morseSequence)) :
                   LET codes == SelectSeq(SplitWs(trim(SplitSlash(morseSequence)[w])),
                                          LAMBDA c : c # <<>>)
                   IN  \A k \in 1..Len(codes) : Get(TEXT_FROM_MORSE, codes[k]).truthy

(***************************************************************************)
(* morsePlayer.js                                                           *)
(***************************************************************************)

\* volume is kept in hundredths (0.3 is 30); durations are milliseconds.
DEFAULT_CONFIG == [frequency |-> 600, unitDuration |-> 60, volume |-> 30]

\* The argument value null of play()'s config parameter.
NoConfig == [none |-> TRUE]

\* Bounds of the model.
MaxSessions == 3
MaxTicks == 7
MaxTimelineTicks == 24
MaxTextLen == 4
MaxRawLen == 3
MaxControlSessions == 2
MaxControlTicks == 4
MaxFairSessions == 2
MaxFairTicks == 7

MaxCodecLen == 3

MaxMorseLen == 5

MaxRunLen == 12

MaxUISessions == 2

MaxUITicks == 5

MaxFaultSessions == 2

MaxFaultTicks == 4

MaxThrowAt == 2

\* The clock advances in steps of one default unit.
ClockSteps == {60}

\* The calls of play() made while sessions may overlap: the sequence and
\* whether an onProgress callback is passed.
PlayCalls ==
  { [morseSequence |-> <<>>,         onProgress |-> FALSE],
    [morseSequence |-> <<" ">>,      onProgress |-> TRUE],
    [morseSequence |-> <<".">>,      onProgress |-> TRUE],
    [morseSequence |-> <<".">>,      onProgress |-> FALSE],
    [morseSequence |-> <<"-", ".">>, onProgress |-> TRUE] }

\* The calls of play() made next to the speed control.
ControlCalls ==
  { [morseSequence |-> <<" ">>, onProgress |-> FALSE],
    [morseSequence |-> <<".">>, onProgress |-> TRUE] }

ConfigInputs == { NoConfig }

\* The arguments setSpeed() is called with.
SpeedInputs == { 3, 10, 100 }

BoundedSeqs(S, n) == UNION { [1..k -> S] : k \in 0..n }

\* The strings translate() is called with: every supported character and
\* every lower-case letter alone, and short strings over characters that
\* are letters, digits, Morse symbols, white space or unsupported.
CodecTexts ==
  { <<MORSE_KEYS[i]>> : i \in 1..Len(MORSE_KEYS) }
    \cup { <<LowerCase[i]>> : i \in 1..Len(LowerCase) }
    \cup BoundedSeqs({"e", "T", "0", "/", ".", " ", "~", "#"}, MaxCodecLen)
    \cup { <<"e", "T", " ", " ", "0">>,
           <<"e", " ", "~", " ", "T">>,
           <<" ", "e", "\t", "T", "/", "\n", ".", " ">> }

\* The Morse sequences translate() and validateMorse() are called with:
\* short strings of symbols, white space and separators, and some words
\* that are no Morse at all.
MorseTexts ==
  BoundedSeqs({".", "-", " ", "/"}, MaxMorseLen)
    \cup { <<".", ".", ".", ".", ".", ".", ".">>,
           <<"v", "a", "l", "u", "e", "O", "f">>,
           <<".", "-", " ", "v", "a", "l", "u", "e", "O", "f">>,
           <<"a", "b", "c">>,
           <<".", " ", "x">>,
           <<".", " ", "-", "-", "-", "-">>,
           <<".", " ", "\t", "-", "-", "-", "-">>,
           <<".", "\t", "-">> }

\* The sequences validateMorse() is called with: those and every unbroken
\* run of symbols up to MaxRunLen.
ValidateInputs ==
  MorseTexts \cup BoundedSeqs({".", "-"}, MaxRunLen) \cup { Null }

\* The values translate() is given as its direction: the two it accepts,
\* a misspelt one, the empty string and undefined.
Directions == { "toMorse", "toText", "tomorse", "", "undefined" }

\* The values translate() is given as its input: texts, Morse, white space
\* of every kind, and null or undefined.
TranslateInputs ==
  CodecTexts \cup MorseTexts
    \cup { Null, <<"\t">>, <<"\n">>, <<" ", "\t", "\n">> }

\* Texts the UI translates and hands to play().
Texts == BoundedSeqs({"e", "T", "a", " ", "~"}, MaxTextLen)

TranslatedInputs == { translate(t, "toMorse").output : t \in Texts }

\* The sequences a single playback is called with.
TimelineInputs ==
  TranslatedInputs \cup BoundedSeqs({".", "-", " ", "/", "x"}, MaxRawLen)

VARIABLES
  audioSupported,   \* typeof AudioContext !== 'undefined' in this environment
  audioContext,     \* TRUE once the module's AudioContext has been created
  currentConfig,
  isPlaying,
  scheduledNodes,   \* indices into oscillators
  oscillators,      \* every oscillator handed to the audio context
  timers,           \* pending setTimeout callbacks, in the order they were set
  sessions,         \* one record per play() call: its closure and its promise
  progressCalls,    \* per session, the onProgress invocations made so far
  clock,            \* ctx.currentTime and the timers' clock, in ms
  lastCall,         \* the call that ran last and the argument of the last setSpeed()
  codec,            \* the input and the results of the codec calls made
  ui,               \* the UI controller's state object
  clipboard         \* the page's clipboard environment and the copy() calls made

vars ==
  << audioSupported, audioContext, currentConfig, isPlaying, scheduledNodes,
     oscillators, timers, sessions, progressCalls, clock, lastCall, codec, ui,
     clipboard >>

\* isSupported taking an AudioContext created earlier for present support.
isSupported_OrContextExists == audioSupported \/ audioContext

isSupported == audioSupported

ToneStep_ProgressLate(acc, units, unit, onProgress) ==
  LET afterTone == acc.currentTime + units * unit
  IN  [currentTime |-> afterTone + MORSE_TIMING.INTRA_CHAR_GAP * unit,
       charIndex   |-> acc.charIndex + 1,
       tones       |-> Append(acc.tones,
                         [startTime |-> acc.currentTime,
                          duration  |-> units * unit]),
       delays      |-> IF onProgress
                       THEN Append(acc.delays,
                              afterTone + 2 * MORSE_TIMING.INTRA_CHAR_GAP * unit)
                       ELSE acc.delays]

\* The tone branch of the loop of play(): the tone, the progress timer set
\* at the time reached after the tone, and the intra-character gap.
ToneStep(acc, units, unit, onProgress) ==
  LET afterTone == acc.currentTime + units * unit
  IN  [currentTime |-> afterTone + MORSE_TIMING.INTRA_CHAR_GAP * unit,
       charIndex   |-> acc.charIndex + 1,
       tones       |-> Append(acc.tones,
                         [startTime |-> acc.currentTime,
                          duration  |-> units * unit]),
       delays      |-> IF onProgress THEN Append(acc.delays, afterTone)
                       ELSE acc.delays]

\* WalkSymbol with a progress timer set for a space as well.
WalkSymbol_ProgressOnSpace(acc, symbol, audioConfig, onProgress) ==
  LET unit == audioConfig.unitDuration IN
  IF symbol = "." THEN ToneStep(acc, MORSE_TIMING.DIT, unit, onProgress)
  ELSE IF symbol = "-" THEN ToneStep(acc, MORSE_TIMING.DAH, unit, onProgress)
  ELSE IF symbol = " "
  THEN [acc EXCEPT !.currentTime = @ + 2 * unit,
                   !.delays = IF onProgress THEN Append(@, acc.currentTime) ELSE @]
  ELSE IF symbol = "/"
  THEN [acc EXCEPT !.currentTime = @ + 4 * unit]
  ELSE acc

\* WalkSymbol with a space adding the whole inter-character gap.
WalkSymbol_WholeCharGap(acc, symbol, audioConfig, onProgress) ==
  LET unit == audioConfig.unitDuration IN
  IF symbol = "." THEN ToneStep(acc, MORSE_TIMING.DIT, unit, onProgress)
  ELSE IF symbol = "-" THEN ToneStep(acc, MORSE_TIMING.DAH, unit, onProgress)
  ELSE IF symbol = " "
  THEN [acc EXCEPT !.currentTime = @ + MORSE_TIMING.INTER_CHAR_GAP * unit]
  ELSE IF symbol = "/"
  THEN [acc EXCEPT !.currentTime = @ + 4 * unit]
  ELSE acc

\* WalkSymbol with a slash adding the whole word gap.
WalkSymbol_WholeWordGap(acc, symbol, audioConfig, onProgress) ==
  LET unit == audioConfig.unitDuration IN
  IF symbol = "." THEN ToneStep(acc, MORSE_TIMING.DIT, unit, onProgress)
  ELSE IF symbol = "-" THEN ToneStep(acc, MORSE_TIMING.DAH, unit, onProgress)
  ELSE IF symbol = " "
  THEN [acc EXCEPT !.currentTime = @ + 2 * unit]
  ELSE IF symbol = "/"
  THEN [acc EXCEPT !.currentTime = @ + MORSE_TIMING.WORD_GAP * unit]
  ELSE acc

\* One step of the loop of play() over the symbols:
\* acc = [currentTime, charIndex, tones, delays], times in ms from ctx.currentTime.
WalkSymbol(acc, symbol, audioConfig, onProgress) ==
  LET unit == audioConfig.unitDuration IN
  IF symbol = "." THEN ToneStep(acc, MORSE_TIMING.DIT, unit, onProgress)
  ELSE IF symbol = "-" THEN ToneStep(acc, MORSE_TIMING.DAH, unit, onProgress)
  ELSE IF symbol = " "
  THEN [acc EXCEPT !.currentTime = @ + 2 * unit]
  ELSE IF symbol = "/"
  THEN [acc EXCEPT !.currentTime = @ + 4 * unit]
  ELSE acc

RECURSIVE WalkFrom(_, _, _, _, _)
WalkFrom(morseSequence, i, acc, audioConfig, onProgress) ==
  IF i > Len(morseSequence) THEN acc
  ELSE WalkFrom(morseSequence, i + 1,
         WalkSymbol(acc, morseSequence[i], audioConfig, onProgress),
         audioConfig, onProgress)

\* The timeline the try block of play() computes for a sequence.
Walk(morseSequence, audioConfig, onProgress) ==
  WalkFrom(morseSequence, 1,
    [currentTime |-> 0, charIndex |-> 0, tones |-> <<>>, delays |-> <<>>],
    audioConfig, onProgress)

\* scheduleTone: the oscillator it creates, started at startTime and set to
\* stop at startTime + duration; hardStopped records a later oscillator.stop().
scheduleTone(session, config, startTime, duration) ==
  [session     |-> session,
   frequency   |-> config.frequency,
   volume      |-> config.volume,
   startTime   |-> startTime,
   stopTime    |-> startTime + duration,
   hardStopped |-> FALSE]

\* The oscillators after stop() has called oscillator.stop() on every
\* scheduled node.
StoppedNodes(oscs, nodes) ==
  [k \in 1..Len(oscs) |->
     IF \E n \in 1..Len(nodes) : nodes[n] = k
     THEN [oscs[k] EXCEPT !.hardStopped = TRUE]
     ELSE oscs[k]]

\* A session is cancelled when stop() runs while its promise is pending;
\* cancelledBy records whether stop() was called directly or by a later play().
CancelPending(ss, by) ==
  [s \in 1..Len(ss) |->
     IF ss[s].promise = "pending" /\ ss[s].cancelledBy = "none"
     THEN [ss[s] EXCEPT !.cancelledBy = by]
     ELSE ss[s]]

\* The record of a play() call that settles its promise before scheduling.
ImmediateSession(morseSequence, config, onProgress, outcome, reason) ==
  [sequence |-> morseSequence, config |-> config, onProgress |-> onProgress,
   scheduled |-> FALSE, startTime |-> clock, unitDuration |-> 0,
   charIndex |-> 0, totalChars |-> Len(morseSequence), totalDuration |-> 0,
   promise |-> outcome, reason |-> reason, cancelledBy |-> "none",
   settledAt |-> clock, createdContext |-> FALSE]

Init ==
  /\ audioSupported \in BOOLEAN
  /\ audioContext = FALSE
  /\ currentConfig = DEFAULT_CONFIG
  /\ isPlaying = FALSE
  /\ scheduledNodes = <<>>
  /\ oscillators = <<>>
  /\ timers = <<>>
  /\ sessions = <<>>
  /\ progressCalls = <<>>
  /\ clock = 0
  /\ lastCall = [name |-> "none", speedSet |-> FALSE, wpm |-> 0]
  /\ codec = [phase |-> "idle"]
  /\ ui = [currentMorse |-> <<>>, isPlaying |-> FALSE,
           audioSupported |-> FALSE, initialized |-> FALSE,
           playDisabled |-> FALSE]
  /\ clipboard = [loaded |-> FALSE, hasApi |-> FALSE, system |-> <<>>,
                  textareas |-> 0, copies |-> <<>>]

getAudioContext_AlwaysNew(ctx, supported) ==
  [audioContext |-> ctx \/ supported, created |-> supported]

\* getAudioContext: the module's context after the call and whether the
\* call constructed it.
getAudioContext(ctx, supported) ==
  [audioContext |-> ctx \/ supported, created |-> ~ctx /\ supported]

\* play(): throwsAt = k > 0 stands for an environment in which the k-th
\* call of scheduleTone throws (0: none does). A config object that omits
\* a field hands undefined to the Web Audio calls of scheduleTone, which
\* throw a TypeError on a non-finite value: the first call throws.
playOutcome(morseSequence, config, onProgress, throwsAt) ==
  /\ progressCalls' = Append(progressCalls, <<>>)
  /\ UNCHANGED << audioSupported, currentConfig, clock >>
  /\ IF ~isSupported
     THEN /\ sessions' = Append(sessions,
                 ImmediateSession(morseSequence, config, onProgress, "rejected",
                                  "Web Audio API not supported"))
          /\ UNCHANGED << audioContext, isPlaying, scheduledNodes, oscillators, timers >>
     ELSE IF morseSequence = <<>> \/ IsBlank(morseSequence)
     THEN /\ sessions' = Append(sessions,
                 ImmediateSession(morseSequence, config, onProgress, "resolved", "none"))
          /\ UNCHANGED << audioContext, isPlaying, scheduledNodes, oscillators, timers >>
     ELSE IF ~getAudioContext(audioContext, isSupported).audioContext
     THEN /\ sessions' = Append(sessions,
                 ImmediateSession(morseSequence, config, onProgress, "rejected",
                                  "Failed to create AudioContext"))
          /\ UNCHANGED << audioContext, isPlaying, scheduledNodes, oscillators, timers >>
     ELSE LET audioConfig == IF config = NoConfig THEN currentConfig ELSE config
              complete    == DOMAIN audioConfig = DOMAIN DEFAULT_CONFIG
              hasTone     == \E i \in 1..Len(morseSequence) :
                               morseSequence[i] \in {".", "-"}
              \* without a unit duration every offset is NaN, and a
              \* setTimeout delay of NaN is 0
              walkConfig  == IF "unitDuration" \in DOMAIN audioConfig
                             THEN audioConfig
                             ELSE [unitDuration |-> 0]
              ctx         == getAudioContext(audioContext, isSupported)
              me          == Len(sessions) + 1
              w           == Walk(morseSequence, walkConfig, onProgress)
              threw       == \/ ~complete /\ hasTone
                             \/ complete /\ throwsAt \in 1..Len(w.tones)
              made        == IF ~threw THEN Len(w.tones)
                             ELSE IF ~complete THEN 0 ELSE throwsAt - 1
              stopped     == StoppedNodes(oscillators, scheduledNodes)
              newOscs     == [k \in 1..made |->
                                scheduleTone(me, audioConfig,
                                             clock + w.tones[k].startTime,
                                             w.tones[k].duration)]
              timersSet   == IF ~threw \/ Len(w.delays) < made
                             THEN Len(w.delays) ELSE made
              progress    == [k \in 1..timersSet |->
                                [kind |-> "progress", session |-> me,
                                 at |-> clock + w.delays[k]]]
              completion  == [kind |-> "complete", session |-> me,
                              at |-> clock + w.currentTime]
          IN  /\ audioContext' = ctx.audioContext
              /\ isPlaying' = ~threw
              /\ oscillators' = stopped \o newOscs
              /\ scheduledNodes' =
                   [k \in 1..Len(newOscs) |-> Len(oscillators) + k]
              /\ timers' = IF threw THEN timers \o progress
                           ELSE (timers \o progress) \o <<completion>>
              /\ sessions' = Append(CancelPending(sessions, "play"),
                   [sequence |-> morseSequence, config |-> config,
                    onProgress |-> onProgress,
                    scheduled |-> TRUE, startTime |-> clock,
                    unitDuration |-> walkConfig.unitDuration,
                    charIndex |-> IF threw THEN made ELSE w.charIndex,
                    totalChars |-> Len(morseSequence),
                    totalDuration |-> w.currentTime,
                    promise |-> IF threw THEN "rejected" ELSE "pending",
                    reason |-> IF ~threw THEN "none"
                               ELSE IF ~complete THEN "TypeError"
                               ELSE "scheduleTone threw",
                    cancelledBy |-> "none",
                    settledAt |-> IF threw THEN clock ELSE -1,
                    createdContext |-> ctx.created])

\* play() in an environment whose Web Audio calls succeed.
play(morseSequence, config, onProgress) ==
  playOutcome(morseSequence, config, onProgress, 0)

stop_StopsEveryOscillator ==
  /\ isPlaying' = FALSE
  /\ oscillators' = [k \in 1..Len(oscillators) |->
                       [oscillators[k] EXCEPT !.hardStopped = TRUE]]
  /\ scheduledNodes' = <<>>
  /\ sessions' = CancelPending(sessions, "stop")
  /\ UNCHANGED << audioSupported, audioContext, currentConfig, timers,
                  progressCalls, clock >>

stop ==
  /\ isPlaying' = FALSE
  /\ oscillators' = StoppedNodes(oscillators, scheduledNodes)
  /\ scheduledNodes' = <<>>
  /\ sessions' = CancelPending(sessions, "stop")
  /\ UNCHANGED << audioSupported, audioContext, currentConfig, timers,
                  progressCalls, clock >>

\* The pending timer the event loop runs next: due, earliest, first set.
NextTimer(i) ==
  /\ i \in 1..Len(timers)
  /\ timers[i].at <= clock
  /\ \A j \in 1..Len(timers) :
       j # i => \/ timers[j].at > timers[i].at
                \/ (timers[j].at = timers[i].at /\ j > i)

RemoveAt(seq, i) == SubSeq(seq, 1, i - 1) \o SubSeq(seq, i + 1, Len(seq))

ProgressTimerOutcome_ThrowAborts(i, threw) ==
  /\ NextTimer(i)
  /\ timers[i].kind = "progress"
  /\ LET s == timers[i].session
     IN  /\ progressCalls' = [progressCalls EXCEPT ![s] =
               Append(@, [symbolIndex |-> sessions[s].charIndex,
                          total       |-> sessions[s].totalChars,
                          scheduledAt |-> timers[i].at,
                          at          |-> clock,
                          cancelled   |-> sessions[s].cancelledBy # "none",
                          threw       |-> threw])]
         /\ timers' = IF threw
                      THEN SelectSeq(timers, LAMBDA t : t.session # s)
                      ELSE RemoveAt(timers, i)
  /\ UNCHANGED << audioSupported, audioContext, currentConfig, isPlaying,
                  scheduledNodes, oscillators, sessions, clock >>

\* The callback () => onProgress(charIndex, totalChars): it reads the
\* closure's charIndex when it runs; threw tells whether the caller's
\* onProgress threw, which ends this timer task and nothing else.
ProgressTimerOutcome(i, threw) ==
  /\ NextTimer(i)
  /\ timers[i].kind = "progress"
  /\ LET s == timers[i].session
     IN  progressCalls' = [progressCalls EXCEPT ![s] =
           Append(@, [symbolIndex |-> sessions[s].charIndex,
                      total       |-> sessions[s].totalChars,
                      scheduledAt |-> timers[i].at,
                      at          |-> clock,
                      cancelled   |-> sessions[s].cancelledBy # "none",
                      threw       |-> threw])]
  /\ timers' = RemoveAt(timers, i)
  /\ UNCHANGED << audioSupported, audioContext, currentConfig, isPlaying,
                  scheduledNodes, oscillators, sessions, clock >>

ProgressTimer(i) == ProgressTimerOutcome(i, FALSE)

ProgressTimerThrows(i) == ProgressTimerOutcome(i, TRUE)

\* The completion callback of play().
CompletionTimer(i) ==
  /\ NextTimer(i)
  /\ timers[i].kind = "complete"
  /\ isPlaying' = FALSE
  /\ scheduledNodes' = <<>>
  /\ sessions' = [sessions EXCEPT ![timers[i].session] =
                    IF @.promise = "pending"
                    THEN [@ EXCEPT !.promise = "resolved", !.settledAt = clock]
                    ELSE @]
  /\ timers' = RemoveAt(timers, i)
  /\ UNCHANGED << audioSupported, audioContext, currentConfig, oscillators,
                  progressCalls, clock >>

\* Time passes while the event loop has no due timer to run.
TickWithin(limit) ==
  /\ timers # <<>>
  /\ \A i \in 1..Len(timers) : timers[i].at > clock
  /\ \E step \in ClockSteps :
       /\ clock + step <= limit * step
       /\ clock' = clock + step
  /\ UNCHANGED << audioSupported, audioContext, currentConfig, isPlaying,
                  scheduledNodes, oscillators, timers, sessions, progressCalls >>

setSpeed_RetimesPending(wpm) ==
  LET clamped == IF wpm > 40 THEN 40 ELSE IF wpm < 5 THEN 5 ELSE wpm
      unit    == 1200 \div clamped
  IN  /\ currentConfig' = [currentConfig EXCEPT !.unitDuration = unit]
      /\ timers' = [i \in 1..Len(timers) |->
                      [timers[i] EXCEPT !.at =
                         IF @ > clock
                         THEN clock + ((@ - clock) * unit) \div currentConfig.unitDuration
                         ELSE @]]
      /\ UNCHANGED << audioSupported, audioContext, isPlaying, scheduledNodes,
                      oscillators, sessions, progressCalls, clock >>

setSpeed_NoUpperClamp(wpm) ==
  LET clamped == IF wpm < 5 THEN 5 ELSE wpm
  IN  /\ currentConfig' = [currentConfig EXCEPT !.unitDuration = 1200 \div clamped]
      /\ UNCHANGED << audioSupported, audioContext, isPlaying, scheduledNodes,
                      oscillators, timers, sessions, progressCalls, clock >>

\* setSpeed(wpm), for wpm that divide 1200 after clamping.
setSpeed(wpm) ==
  LET clamped == IF wpm > 40 THEN 40 ELSE IF wpm < 5 THEN 5 ELSE wpm
  IN  /\ currentConfig' = [currentConfig EXCEPT !.unitDuration = 1200 \div clamped]
      /\ UNCHANGED << audioSupported, audioContext, isPlaying, scheduledNodes,
                      oscillators, timers, sessions, progressCalls, clock >>

\* The environment defines or removes the global AudioContext constructor.
AudioSupportChanges(supported) ==
  /\ audioSupported # supported
  /\ audioSupported' = supported
  /\ UNCHANGED << audioContext, currentConfig, isPlaying, scheduledNodes,
                  oscillators, timers, sessions, progressCalls, clock >>

\* The calls' record, the codec's record and the UI are left alone.
Untracked == UNCHANGED << lastCall, codec, ui, clipboard >>

Next ==
  \/ \E call \in PlayCalls, c \in ConfigInputs :
       /\ Len(sessions) < MaxSessions
       /\ play(call.morseSequence, c, call.onProgress)
       /\ Untracked
  \/ stop /\ Untracked
  \/ \E i \in 1..Len(timers) : ProgressTimer(i) /\ Untracked
  \/ \E i \in 1..Len(timers) : CompletionTimer(i) /\ Untracked
  \/ TickWithin(MaxTicks) /\ Untracked

Spec == Init /\ [][Next]_vars

\* One playback on a fresh player, run to its completion.
TimelineNext ==
  \/ \E m \in TimelineInputs, c \in ConfigInputs, p \in BOOLEAN :
       sessions = <<>> /\ play(m, c, p) /\ Untracked
  \/ \E i \in 1..Len(timers) : ProgressTimer(i) /\ Untracked
  \/ \E i \in 1..Len(timers) : ProgressTimerThrows(i) /\ Untracked
  \/ \E i \in 1..Len(timers) : CompletionTimer(i) /\ Untracked
  \/ TickWithin(MaxTimelineTicks) /\ Untracked

TimelineSpec == Init /\ [][TimelineNext]_vars

\* The whole playback of a sequence started now ends within the time modelled.
FitsBefore(morseSequence, limit) ==
  \A step \in ClockSteps :
    clock + Walk(morseSequence, currentConfig, FALSE).currentTime <= limit * step

\* The event loop runs a due timer.
TimerFires ==
  \E i \in 1..Len(timers) : (ProgressTimer(i) \/ CompletionTimer(i)) /\ Untracked

\* The player with an event loop that keeps running: a due timer is run
\* and time passes.
FairNext ==
  \/ \E call \in PlayCalls, c \in ConfigInputs :
       /\ Len(sessions) < MaxFairSessions
       /\ FitsBefore(call.morseSequence, MaxFairTicks)
       /\ play(call.morseSequence, c, call.onProgress)
       /\ Untracked
  \/ stop /\ Untracked
  \/ TimerFires
  \/ TickWithin(MaxFairTicks) /\ Untracked

FairSpec ==
  /\ Init
  /\ [][FairNext]_vars
  /\ WF_vars(TimerFires)
  /\ WF_vars(TickWithin(MaxFairTicks) /\ Untracked)

\* The call that ran is recorded.
Tracked(name) ==
  /\ lastCall' = [lastCall EXCEPT !.name = name]
  /\ UNCHANGED << codec, ui, clipboard >>

\* The player under all its exported functions, with the speed control and
\* an environment whose audio support comes and goes.
ControlNext ==
  \/ \E call \in ControlCalls, c \in ConfigInputs :
       /\ Len(sessions) < MaxControlSessions
       /\ play(call.morseSequence, c, call.onProgress)
       /\ Tracked("play")
  \/ stop /\ Tracked("stop")
  \/ \E wpm \in SpeedInputs :
       /\ setSpeed(wpm)
       /\ lastCall' = [name |-> "setSpeed", speedSet |-> TRUE, wpm |-> wpm]
       /\ UNCHANGED << codec, ui, clipboard >>
  \/ \E supported \in BOOLEAN :
       AudioSupportChanges(supported) /\ Tracked("other")
  \/ \E i \in 1..Len(timers) : ProgressTimer(i) /\ Tracked("other")
  \/ \E i \in 1..Len(timers) : CompletionTimer(i) /\ Tracked("other")
  \/ TickWithin(MaxControlTicks) /\ Tracked("other")

ControlSpec == Init /\ [][ControlNext]_vars

\* The player is left alone while the codec runs.
PlayerIdle ==
  UNCHANGED << audioSupported, audioContext, currentConfig, isPlaying,
               scheduledNodes, oscillators, timers, sessions, progressCalls,
               clock, lastCall, ui, clipboard >>

\* translate(input, 'toMorse')
Encode ==
  /\ codec.phase = "idle"
  /\ \E input \in CodecTexts :
       codec' = [phase |-> "encoded", input |-> input,
                 morse |-> translate(input, "toMorse")]
  /\ PlayerIdle

\* translate(morse.output, 'toText') on the result of the encoding.
Decode ==
  /\ codec.phase = "encoded"
  /\ ~codec.morse.threw
  /\ codec' = [phase |-> "decoded", input |-> codec.input,
               morse |-> codec.morse,
               text  |-> translate(codec.morse.output, "toText")]
  /\ PlayerIdle

\* translate(morse, 'toText') on Morse the user typed.
DecodeMorse ==
  /\ codec.phase = "idle"
  /\ \E morse \in MorseTexts :
       codec' = [phase |-> "decodedMorse", input |-> morse,
                 text  |-> translate(morse, "toText")]
  /\ PlayerIdle

\* validateMorse(morseSequence)
Validate ==
  /\ codec.phase = "idle"
  /\ \E morseSequence \in ValidateInputs :
       codec' = [phase |-> "validated", input |-> morseSequence,
                 valid |-> validateMorse(morseSequence)]
  /\ PlayerIdle

\* translate(morseSequence, 'toText') on a sequence validateMorse() was
\* asked about.
DecodeValidated ==
  /\ codec.phase = "validated"
  /\ codec.input # Null
  /\ codec' = [phase |-> "validatedDecoded", input |-> codec.input,
               valid |-> codec.valid,
               text  |-> translate(codec.input, "toText")]
  /\ PlayerIdle

\* validateMorse(morse.output) on Morse that was encoded and decoded again.
ValidateEncoded ==
  /\ codec.phase = "decoded"
  /\ codec' = [phase |-> "roundTrip", input |-> codec.input,
               morse |-> codec.morse, text |-> codec.text,
               valid |-> validateMorse(codec.morse.output)]
  /\ PlayerIdle

\* translate(input, direction) as any caller may call it.
Translate ==
  /\ codec.phase = "idle"
  /\ \E input \in TranslateInputs, direction \in Directions :
       codec' = [phase |-> "translated", input |-> input,
                 direction |-> direction,
                 result |-> translate(input, direction)]
  /\ PlayerIdle

\* getSupportedCharacters()
ListCharacters ==
  /\ codec.phase = "idle"
  /\ codec' = [phase |-> "listed", chars |-> getSupportedCharacters]
  /\ PlayerIdle

\* The results are dropped and the next text is taken.
Forget ==
  /\ codec.phase \in {"decoded", "decodedMorse", "translated", "validated",
                      "validatedDecoded", "roundTrip", "listed"}
  /\ codec' = [phase |-> "idle"]
  /\ PlayerIdle

CodecNext ==
  \/ Encode
  \/ Decode
  \/ DecodeMorse
  \/ Validate
  \/ DecodeValidated
  \/ ValidateEncoded
  \/ Translate
  \/ ListCharacters
  \/ Forget

CodecSpec == Init /\ [][CodecNext]_vars

\* The config objects play() is called with: none, a whole one, and
\* objects that omit fields.
FaultConfigs ==
  { NoConfig,
    [frequency |-> 800, unitDuration |-> 120, volume |-> 50],
    [frequency |-> 800],
    [unitDuration |-> 120],
    [volume |-> 50],
    [frequency |-> 800, volume |-> 50] }

\* The sequences played in an environment that may fail.
FaultSequences == { <<>>, <<".">>, <<".", ".">>, <<"/">> }

\* The player with config objects of every shape, in an environment in
\* which a call of scheduleTone may throw.
FaultNext ==
  \/ \E m \in FaultSequences, c \in FaultConfigs, throwsAt \in 0..MaxThrowAt :
       /\ Len(sessions) < MaxFaultSessions
       /\ playOutcome(m, c, TRUE, throwsAt)
       /\ Untracked
  \/ stop /\ Untracked
  \/ \E i \in 1..Len(timers) : ProgressTimer(i) /\ Untracked
  \/ \E i \in 1..Len(timers) : CompletionTimer(i) /\ Untracked
  \/ TickWithin(MaxFaultTicks) /\ Untracked

FaultSpec == Init /\ [][FaultNext]_vars

(***************************************************************************)
(* ui/controller.js                                                         *)
(***************************************************************************)

\* The texts typed into the text box.
UITexts == { <<>>, <<" ">>, <<"e">>, <<"t">>, <<"~">> }

\* The positions of the speed slider.
SliderInputs == { 10, 20 }

\* The handler that ran is recorded; the codec's record is left alone.
Handled(name) ==
  /\ lastCall' = [lastCall EXCEPT !.name = name]
  /\ UNCHANGED << codec, clipboard >>

PlayerUntouched ==
  UNCHANGED << audioSupported, audioContext, currentConfig, isPlaying,
               scheduledNodes, oscillators, timers, sessions, progressCalls,
               clock >>

\* init(), with every element of the page present: it reads the audio
\* support and attaches the event listeners.
init ==
  /\ ~ui.initialized
  /\ ui' = [ui EXCEPT !.audioSupported = isSupported, !.initialized = TRUE,
                    !.playDisabled = ~isSupported]
  /\ PlayerUntouched
  /\ Handled("init")

\* handleTextInput, once the debounce delay has passed.
handleTextInput(text) ==
  /\ ui.initialized
  /\ ui' = [ui EXCEPT !.currentMorse =
              IF IsBlank(text) THEN <<>> ELSE translate(text, "toMorse").output]
  /\ PlayerUntouched
  /\ Handled("handleTextInput")

\* handlePlayAudio up to its await: the three early returns, else play();
\* when play() settles its promise at once the code after the await runs
\* before any other task and clears state.isPlaying again.
handlePlayAudio ==
  /\ ui.initialized
  /\ Handled("handlePlayAudio")
  /\ IF ~ui.audioSupported \/ IsBlank(ui.currentMorse) \/ ui.isPlaying
     THEN /\ PlayerUntouched
          /\ UNCHANGED ui
     ELSE /\ play(ui.currentMorse, NoConfig, TRUE)
          /\ ui' = [ui EXCEPT
                      !.isPlaying = sessions'[Len(sessions')].promise = "pending",
                      !.playDisabled = sessions'[Len(sessions')].promise = "pending"]

\* The completion callback of a session and, its promise being awaited by
\* handlePlayAudio, the code after the await (or the catch block).
handlePlayAudioResumes(i) ==
  /\ CompletionTimer(i)
  /\ ui' = IF sessions[timers[i].session].promise = "pending"
           THEN [ui EXCEPT !.isPlaying = FALSE, !.playDisabled = FALSE]
           ELSE ui
  /\ Handled("other")

\* handleStopAudio leaving the Play button as it is.
handleStopAudio_LeavesPlayButton ==
  /\ ui.initialized
  /\ stop
  /\ ui' = [ui EXCEPT !.isPlaying = FALSE]
  /\ Handled("handleStopAudio")

handleStopAudio ==
  /\ ui.initialized
  /\ stop
  /\ ui' = [ui EXCEPT !.isPlaying = FALSE, !.playDisabled = FALSE]
  /\ Handled("handleStopAudio")

handleSpeedChange(wpm) ==
  /\ ui.initialized
  /\ setSpeed(wpm)
  /\ UNCHANGED ui
  /\ Handled("handleSpeedChange")

handleClear ==
  /\ ui.initialized
  /\ Handled("handleClear")
  /\ ui' = [ui EXCEPT !.currentMorse = <<>>, !.isPlaying = FALSE,
                      !.playDisabled = IF ui.isPlaying THEN FALSE ELSE ui.playDisabled]
  /\ IF ui.isPlaying THEN stop ELSE PlayerUntouched

\* The page under its event handlers, the player's timers and the clock.
UINext ==
  \/ init
  \/ \E text \in UITexts : handleTextInput(text)
  \/ Len(sessions) < MaxUISessions /\ handlePlayAudio
  \/ handleStopAudio
  \/ \E wpm \in SliderInputs : handleSpeedChange(wpm)
  \/ handleClear
  \/ \E i \in 1..Len(timers) :
       ProgressTimer(i) /\ UNCHANGED ui /\ Handled("other")
  \/ \E i \in 1..Len(timers) : handlePlayAudioResumes(i)
  \/ TickWithin(MaxUITicks) /\ UNCHANGED ui /\ Handled("other")

UISpec == Init /\ [][UINext]_vars

\* ---- clipboard: copy() ----

MaxCopies == 2

\* Texts handed to copy(); Null is a null argument.
CopyTexts == { <<>>, <<"S">>, <<".", "-">>, Null }

\* navigator.clipboard.writeText(text) resolves, or rejects with an error
\* whose message is a text or the empty string.
WriteOutcomes == { "resolves", "rejects", "rejectsNoMessage" }

\* document.execCommand('copy') returns true or false, or throws an error
\* whose message is a text or the empty string.
ExecOutcomes == { "true", "false", "throws", "throwsNoMessage" }

\* String(text), what reaches the clipboard or the textarea.
String(text) == IF text = Null THEN <<"n", "u", "l", "l">> ELSE text

\* copy() going on to execCommand after a rejected writeText.
copy_FallsBackAfterReject(text, hasApi, write, exec) ==
  IF hasApi /\ write = "resolves"
  THEN [ text |-> text, promise |-> "resolved", tried |-> <<"writeText">>,
         wrote |-> TRUE, leftTextarea |-> FALSE,
         result |-> [success |-> TRUE] ]
  ELSE [ text |-> text, promise |-> "resolved",
         tried |-> IF hasApi THEN <<"writeText", "execCommand">>
                   ELSE <<"execCommand">>,
         wrote |-> exec = "true", leftTextarea |-> FALSE,
         result |-> IF exec = "true" THEN [success |-> TRUE]
                    ELSE [success |-> FALSE, error |-> "Copy command failed"] ]

\* copy(text) in a page whose navigator has the Clipboard API (hasApi) or
\* not, given what writeText and execCommand do: the settled promise, the
\* mechanisms called, whether the text reached the clipboard and whether
\* the helper textarea stayed in the document.
copy(text, hasApi, write, exec) ==
  IF hasApi
  THEN [ text |-> text, promise |-> "resolved", tried |-> <<"writeText">>,
         wrote |-> write = "resolves", leftTextarea |-> FALSE,
         result |-> CASE write = "resolves" -> [success |-> TRUE]
                      [] write = "rejects" ->
                           [success |-> FALSE, error |-> "err.message"]
                      [] OTHER ->
                           [success |-> FALSE, error |-> "Clipboard access denied"] ]
  ELSE IF text = Null
  THEN \* text.length throws before execCommand is reached
       [ text |-> text, promise |-> "resolved", tried |-> <<>>,
         wrote |-> FALSE, leftTextarea |-> TRUE,
         result |-> [success |-> FALSE, error |-> "err.message"] ]
  ELSE [ text |-> text, promise |-> "resolved", tried |-> <<"execCommand">>,
         wrote |-> exec = "true",
         leftTextarea |-> exec \in {"throws", "throwsNoMessage"},
         result |-> CASE exec = "true" -> [success |-> TRUE]
                      [] exec = "false" ->
                           [success |-> FALSE, error |-> "Copy command failed"]
                      [] exec = "throws" ->
                           [success |-> FALSE, error |-> "err.message"]
                      [] OTHER ->
                           [success |-> FALSE,
                            error |-> "Failed to copy to clipboard"] ]

ClipboardIdle ==
  UNCHANGED << audioSupported, audioContext, currentConfig, isPlaying,
               scheduledNodes, oscillators, timers, sessions, progressCalls,
               clock, lastCall, codec, ui >>

\* The page is loaded in a browser that has the Clipboard API or lacks it.
LoadPage(hasApi) ==
  /\ ~clipboard.loaded
  /\ clipboard' = [clipboard EXCEPT !.loaded = TRUE, !.hasApi = hasApi]
  /\ ClipboardIdle

\* A call of copy(text), awaited to its end.
Copy ==
  /\ clipboard.loaded
  /\ Len(clipboard.copies) < MaxCopies
  /\ \E text \in CopyTexts, write \in WriteOutcomes, exec \in ExecOutcomes :
       LET c == copy(text, clipboard.hasApi, write, exec)
       IN  clipboard' = [clipboard EXCEPT
             !.copies = Append(@, c),
             !.system = IF c.wrote THEN String(text) ELSE @,
             !.textareas = IF c.leftTextarea THEN @ + 1 ELSE @]
  /\ ClipboardIdle

ClipboardNext ==
  \/ \E hasApi \in BOOLEAN : LoadPage(hasApi)
  \/ Copy

ClipboardSpec == Init /\ [][ClipboardNext]_vars

(***************************************************************************)
(* Properties                                                               *)
(***************************************************************************)

IsTone(symbol) == symbol = "." \/ symbol = "-"

\* The positions of the tone symbols of a sequence, in order.
RECURSIVE TonePositionsFrom(_, _)
TonePositionsFrom(seq, i) ==
  IF i > Len(seq) THEN <<>>
  ELSE IF IsTone(seq[i]) THEN <<i>> \o TonePositionsFrom(seq, i + 1)
  ELSE TonePositionsFrom(seq, i + 1)

TonePositions(seq) == TonePositionsFrom(seq, 1)

\* The oscillators of a session, in the order they were created.
RECURSIVE OscillatorsFrom(_, _)
OscillatorsFrom(s, k) ==
  IF k > Len(oscillators) THEN <<>>
  ELSE IF oscillators[k].session = s
       THEN <<oscillators[k]>> \o OscillatorsFrom(s, k + 1)
       ELSE OscillatorsFrom(s, k + 1)

OscillatorsOf(s) == OscillatorsFrom(s, 1)

\* The symbols between the k-th tone symbol and the next one.
SeparatorAfter(seq, k) ==
  LET pos == TonePositions(seq) IN SubSeq(seq, pos[k] + 1, pos[k + 1] - 1)

\* The silence the timeline leaves after the k-th tone of session s.
SilenceAfter(s, k) ==
  LET o == OscillatorsOf(s) IN o[k + 1].startTime - o[k].stopTime

\* A session that play() scheduled and whose completion timer has fired
\* without stop() having run in between.
RanToCompletion(s) ==
  /\ sessions[s].scheduled
  /\ sessions[s].promise = "resolved"
  /\ sessions[s].cancelledBy = "none"

\* C1: when play() schedules the tones of a new session, oscillator.stop()
\* has been called on every tone of an earlier session that was still
\* outstanding (its scheduled end not yet reached) at that moment.
C1_EarlierTonesStopped ==
  \A a \in 1..Len(oscillators), b \in 1..Len(oscillators) :
    ( /\ oscillators[a].session < oscillators[b].session
      /\ oscillators[a].stopTime > sessions[oscillators[b].session].startTime )
    => oscillators[a].hardStopped

\* C2: after stop() returns, every tone of a session whose completion timer
\* has not fired has had oscillator.stop() called on it, isPlaying is false
\* and no scheduled tone is tracked.
C2_StopLeavesIdle ==
  [][ stop =>
        ( /\ ~isPlaying'
          /\ scheduledNodes' = <<>>
          /\ \A k \in 1..Len(oscillators') :
               sessions'[oscillators'[k].session].promise = "pending"
                 => oscillators'[k].hardStopped ) ]_vars

\* C3: onProgress of a session is never invoked after the session was
\* cancelled by stop() or by a later play().
C3_NoProgressAfterCancel ==
  \A s \in 1..Len(progressCalls) :
    \A k \in 1..Len(progressCalls[s]) : ~progressCalls[s][k].cancelled

\* C4: the promise of a session that stop() cancelled is rejected with
\* "Playback stopped" and is never resolved.
C4_StopRejectsPromise ==
  \A s \in 1..Len(sessions) :
    sessions[s].cancelledBy = "stop"
      => /\ sessions[s].promise = "rejected"
         /\ sessions[s].reason = "Playback stopped"

\* C5: the promise of a session that a later play() pre-empted is rejected
\* as cancelled, and the later session is scheduled.
C5_SecondPlayRejectsFirst ==
  \A s \in 1..Len(sessions) :
    sessions[s].cancelledBy = "play"
      => /\ sessions[s].promise = "rejected"
         /\ \E t \in (s + 1)..Len(sessions) : sessions[t].scheduled

\* C6: in a playback that ran to completion, the k-th onProgress invocation
\* (k counted from 0) receives symbolIndex = k.
C6_ProgressIndicesCountUp ==
  \A s \in 1..Len(sessions) :
    RanToCompletion(s) =>
      \A k \in 1..Len(progressCalls[s]) :
        progressCalls[s][k].symbolIndex = k - 1

\* C7: in a playback with a callback that ran to completion, onProgress was
\* invoked once per '.' or '-' of the sequence and never for another symbol,
\* every time with total = the raw length of the sequence.
C7_ProgressOncePerTone ==
  \A s \in 1..Len(sessions) :
    (RanToCompletion(s) /\ sessions[s].onProgress) =>
      /\ Len(progressCalls[s]) =
           Cardinality({i \in 1..Len(sessions[s].sequence) :
                          IsTone(sessions[s].sequence[i])})
      /\ \A k \in 1..Len(progressCalls[s]) :
           progressCalls[s][k].total = Len(sessions[s].sequence)

\* A completed playback of a sequence with separators reported progress.
C7_Witness ==
  \E s \in 1..Len(sessions) :
    /\ RanToCompletion(s) /\ sessions[s].onProgress
    /\ Len(progressCalls[s]) = 2
    /\ \E i \in 1..Len(sessions[s].sequence) : sessions[s].sequence[i] = "/"
    /\ \E i \in 1..Len(sessions[s].sequence) : sessions[s].sequence[i] = " "

\* C8: the k-th onProgress invocation is scheduled at the offset at which
\* the k-th tone of the session starts.
C8_ProgressAtToneStart ==
  \A s \in 1..Len(progressCalls) :
    \A k \in 1..Len(progressCalls[s]) :
      progressCalls[s][k].scheduledAt = OscillatorsOf(s)[k].startTime

\* C9: in the timeline of a translated text, two tones that a word
\* separator lies between are 7 units of silence apart.
C9_WordGapIsSeven ==
  \A s \in 1..Len(sessions) :
    (sessions[s].scheduled /\ sessions[s].sequence \in TranslatedInputs) =>
      \A k \in 1..(Len(OscillatorsOf(s)) - 1) :
        (\E i \in 1..Len(SeparatorAfter(sessions[s].sequence, k)) :
           SeparatorAfter(sessions[s].sequence, k)[i] = "/")
        => SilenceAfter(s, k) = MORSE_TIMING.WORD_GAP * sessions[s].unitDuration

\* C10: in the timeline a '.' lasts 1 unit and a '-' 3 units, two tones with
\* nothing between them are 1 unit apart and two tones with a single space
\* between them are 3 units apart.
C10_ToneAndCharacterGaps ==
  \A s \in 1..Len(sessions) :
    sessions[s].scheduled =>
      LET seq  == sessions[s].sequence
          pos  == TonePositions(seq)
          o    == OscillatorsOf(s)
          unit == sessions[s].unitDuration
      IN  /\ Len(o) = Len(pos)
          /\ \A k \in 1..Len(o) :
               o[k].stopTime - o[k].startTime =
                 (IF seq[pos[k]] = "." THEN 1 ELSE 3) * unit
          /\ \A k \in 1..(Len(o) - 1) :
               /\ SeparatorAfter(seq, k) = <<>> => SilenceAfter(s, k) = 1 * unit
               /\ SeparatorAfter(seq, k) = <<" ">> => SilenceAfter(s, k) = 3 * unit

\* A scheduled timeline with a dot, a dash, two adjacent tones and two tones
\* a single space apart.
C10_Witness ==
  \E s \in 1..Len(sessions) :
    /\ sessions[s].scheduled
    /\ sessions[s].sequence = <<".", "-", " ", ".">>
    /\ Len(OscillatorsOf(s)) = 3

\* The units the claim assigns to a sequence: 2 for '.', 4 for '-', 2 for
\* ' ', 4 for '/', 0 for anything else.
RECURSIVE ClaimedUnits(_)
ClaimedUnits(seq) ==
  IF seq = <<>> THEN 0
  ELSE (IF Head(seq) = "." THEN 2
        ELSE IF Head(seq) = "-" THEN 4
        ELSE IF Head(seq) = " " THEN 2
        ELSE IF Head(seq) = "/" THEN 4
        ELSE 0) + ClaimedUnits(Tail(seq))

\* C11: a session that was not cancelled resolves its promise at
\* U * unitDuration after its start, U being the sum of 2 per '.', 4 per
\* '-', 2 per ' ', 4 per '/' and 0 per other character of the sequence.
C11_ResolvesAtTotalDuration ==
  \A s \in 1..Len(sessions) :
    RanToCompletion(s) =>
      sessions[s].settledAt - sessions[s].startTime =
        ClaimedUnits(sessions[s].sequence) * sessions[s].unitDuration

\* A completed playback whose sequence has three consecutive separators.
C11_Witness ==
  \E s \in 1..Len(sessions) :
    /\ RanToCompletion(s)
    /\ sessions[s].sequence = <<".", " ", "/", " ", "-">>
    /\ sessions[s].settledAt = sessions[s].startTime + 840

\* The session a step of play() has just added, when the step is one.
IsPlayStep == Len(sessions') = Len(sessions) + 1

NewSession == sessions'[Len(sessions')]

\* C12: play() of an empty or whitespace-only sequence resolves at once,
\* creates no tone and makes no onProgress call, in every state of the
\* player and of the environment.
C12_BlankSequenceResolves ==
  \A s \in 1..Len(sessions) :
    IsBlank(sessions[s].sequence) =>
      /\ sessions[s].promise = "resolved"
      /\ sessions[s].settledAt = sessions[s].startTime
      /\ OscillatorsOf(s) = <<>>
      /\ progressCalls[s] = <<>>

\* C13: play() of a non-empty sequence while the audio subsystem is
\* unavailable rejects with the audio-unavailable error and leaves the
\* player as it was: no tone, no timer, isPlaying, the tracked tones and
\* the speed configuration unchanged; its onProgress is never called.
C13_UnavailableRejectsBeforeScheduling ==
  /\ [][ (IsPlayStep /\ ~audioSupported /\ ~IsBlank(NewSession.sequence)) =>
           /\ NewSession.promise = "rejected"
           /\ NewSession.reason = "Web Audio API not supported"
           /\ ~NewSession.scheduled
           /\ SubSeq(sessions', 1, Len(sessions)) = sessions
           /\ UNCHANGED << oscillators, timers, isPlaying, scheduledNodes,
                           currentConfig, audioContext >> ]_vars
  /\ [](\A s \in 1..Len(sessions) :
          sessions[s].promise = "rejected" =>
            /\ progressCalls[s] = <<>>
            /\ OscillatorsOf(s) = <<>>
            /\ \A i \in 1..Len(timers) : timers[i].session # s)

\* play() was rejected for lack of audio support while an earlier session,
\* scheduled when support was there, is still playing.
C13_Witness ==
  \E s \in 1..Len(sessions), t \in 1..Len(sessions) :
    /\ t < s
    /\ sessions[t].promise = "pending" /\ sessions[t].cancelledBy = "none"
    /\ sessions[s].promise = "rejected" /\ ~IsBlank(sessions[s].sequence)
    /\ isPlaying /\ scheduledNodes # <<>> /\ audioContext

\* While timers keep firing, every promise is eventually resolved or rejected.
C14_EventuallySettled ==
  \A s \in 1..MaxFairSessions :
    [](Len(sessions) >= s =>
         <>(Len(sessions) >= s /\ sessions[s].promise # "pending"))

\* A settled promise never changes its outcome.
C14_OutcomeStable ==
  [][ \A s \in 1..Len(sessions) :
        sessions[s].promise # "pending" =>
          sessions'[s].promise = sessions[s].promise ]_vars

\* A promise is resolved only for a session that was not cancelled, and
\* rejected only for one that was cancelled or found audio unavailable.
C14_OutcomeMatchesCause ==
  [](\A s \in 1..Len(sessions) :
       /\ sessions[s].promise = "resolved" => sessions[s].cancelledBy = "none"
       /\ sessions[s].promise = "rejected" =>
            \/ sessions[s].cancelledBy # "none"
            \/ sessions[s].reason = "Web Audio API not supported"
            \/ sessions[s].reason = "Failed to create AudioContext")

\* C14: every promise play() returns is settled exactly once: while timers
\* keep firing it is eventually resolved (natural completion) or rejected
\* (cancellation, audio unavailable), and a settled promise never changes
\* its outcome.
C14_PromiseSettlesOnce ==
  /\ C14_EventuallySettled
  /\ C14_OutcomeStable
  /\ C14_OutcomeMatchesCause

Min(a, b) == IF a < b THEN a ELSE b

Max(a, b) == IF a > b THEN a ELSE b

\* The unit duration the speed control is said to have selected: 60 ms
\* before any setSpeed(), 1200 / min(40, max(5, w)) after setSpeed(w).
ClaimedUnitDuration ==
  IF lastCall.speedSet THEN 1200 \div Min(40, Max(5, lastCall.wpm)) ELSE 60

\* C15: a default-config play() that schedules tones uses the unit duration
\* 1200 / min(40, max(5, w)) of the last setSpeed(w), or 60 ms when
\* setSpeed() was never called; the value always lies in 30..240.
C15_SpeedClampedUnitDuration ==
  [][ (IsPlayStep /\ NewSession.scheduled) =>
        /\ NewSession.unitDuration = ClaimedUnitDuration
        /\ NewSession.unitDuration >= 30 /\ NewSession.unitDuration <= 240
        /\ NewSession.totalDuration =
             ClaimedUnits(NewSession.sequence) * ClaimedUnitDuration
        /\ \A k \in Len(oscillators) + 1 .. Len(oscillators') :
             oscillators'[k].stopTime - oscillators'[k].startTime =
               ClaimedUnitDuration ]_vars

\* Sessions were played after setSpeed(3) and after setSpeed(100).
C15_Witness ==
  /\ lastCall.speedSet /\ lastCall.wpm = 100
  /\ \E s \in 1..Len(sessions), t \in 1..Len(sessions) :
       /\ sessions[s].scheduled /\ sessions[s].unitDuration = 240
       /\ sessions[t].scheduled /\ sessions[t].unitDuration = 30

\* The timers of session s, in the order they were set.
TimersOf(s) == SelectSeq(timers, LAMBDA t : t.session = s)

\* What a caller of setSpeed() can observe of the sessions in flight.
SessionTimelines == << oscillators, timers, sessions, progressCalls,
                       isPlaying, scheduledNodes >>

\* C16: setSpeed() leaves every session in flight as it was: its tones,
\* its pending progress and completion timers and its record keep the
\* offsets computed when play() was entered, and a session's completion
\* stays at its start plus its own unit duration times its units; only a
\* play() entered after the call takes the new unit duration.
C16_SetSpeedLeavesSessionInFlight ==
  /\ [][ lastCall'.name = "setSpeed" => UNCHANGED SessionTimelines ]_vars
  /\ [][ (IsPlayStep /\ NewSession.scheduled) =>
           NewSession.unitDuration = currentConfig.unitDuration ]_vars
  /\ [](\A s \in 1..Len(sessions) :
          sessions[s].scheduled =>
            /\ sessions[s].totalDuration =
                 ClaimedUnits(sessions[s].sequence) * sessions[s].unitDuration
            /\ \A i \in 1..Len(timers) :
                 (timers[i].session = s /\ timers[i].kind = "complete") =>
                   timers[i].at = sessions[s].startTime + sessions[s].totalDuration
            /\ \A k \in 1..Len(OscillatorsOf(s)) :
                 OscillatorsOf(s)[k].stopTime - OscillatorsOf(s)[k].startTime
                   = sessions[s].unitDuration)

\* setSpeed() has just run while a session played at another unit duration
\* and still waits for its completion timer.
C16_Witness ==
  /\ lastCall.name = "setSpeed"
  /\ isPlaying
  /\ \E s \in 1..Len(sessions) :
       /\ sessions[s].promise = "pending" /\ sessions[s].cancelledBy = "none"
       /\ sessions[s].unitDuration # currentConfig.unitDuration
       /\ TimersOf(s) # <<>>
       /\ clock > sessions[s].startTime

\* Everything the player holds and has scheduled.
PlayerState == << audioSupported, audioContext, currentConfig, isPlaying,
                  scheduledNodes, oscillators, timers, sessions,
                  progressCalls, clock >>

\* No session is playing: every promise is settled or its session cancelled.
NoActiveSession ==
  \A s \in 1..Len(sessions) :
    sessions[s].promise # "pending" \/ sessions[s].cancelledBy # "none"

ContextCreators == { s \in 1..Len(sessions) : sessions[s].createdContext }

\* The sessions whose play() scheduled tones.
ScheduledSessions == { s \in 1..Len(sessions) : sessions[s].scheduled }

\* C18: at most one audio context is ever constructed; it is constructed
\* by the first play() that schedules tones, exists from then on, and is
\* not constructed before; play() and stop() never drop it.
C18_SingleLazyContext ==
  /\ [](/\ Cardinality(ContextCreators) <= 1
        /\ audioContext <=> ScheduledSessions # {}
        /\ \A s \in ContextCreators :
             /\ s \in ScheduledSessions
             /\ \A t \in ScheduledSessions : s <= t)
  /\ [][ audioContext => audioContext' ]_vars
  /\ [][ (IsPlayStep /\ NewSession.createdContext) => ~audioContext ]_vars

\* A first session constructed the context and a later session was
\* scheduled on it, with a stop() since.
C18_Witness ==
  /\ audioContext
  /\ \E s \in 1..Len(sessions), t \in 1..Len(sessions) :
       /\ s < t
       /\ sessions[s].createdContext /\ sessions[s].cancelledBy = "stop"
       /\ sessions[t].scheduled /\ ~sessions[t].createdContext

\* The pending progress timers of session s, in the order they were set.
PendingProgress(s) ==
  SelectSeq(timers, LAMBDA t : t.session = s /\ t.kind = "progress")

\* Some onProgress invocation of session s threw.
SomeProgressThrew(s) ==
  \E k \in 1..Len(progressCalls[s]) : progressCalls[s][k].threw

\* C19: once an onProgress invocation of a session has thrown, the
\* invocations already made and those still pending are together one per
\* tone, each at the offset play() computed for it (the end of its tone);
\* the completion timer stays set at the total duration while the promise
\* is pending, and the promise resolves at exactly that time.
C19_ThrowingProgressKeepsTimeline ==
  \A s \in 1..Len(sessions) :
    SomeProgressThrew(s) =>
      LET made    == progressCalls[s]
          pending == PendingProgress(s)
          tones   == OscillatorsOf(s)
          finish  == sessions[s].startTime
                       + ClaimedUnits(sessions[s].sequence) * sessions[s].unitDuration
      IN  /\ Len(made) + Len(pending) = Len(tones)
          /\ \A k \in 1..Len(made) :
               /\ made[k].scheduledAt = tones[k].stopTime
               /\ made[k].at = made[k].scheduledAt
          /\ \A k \in 1..Len(pending) :
               pending[k].at = tones[Len(made) + k].stopTime
          /\ sessions[s].promise \in {"pending", "resolved"}
          /\ sessions[s].promise = "pending" =>
               \E i \in 1..Len(timers) :
                 timers[i] = [kind |-> "complete", session |-> s, at |-> finish]
          /\ sessions[s].promise = "resolved" =>
               /\ sessions[s].settledAt = finish
               /\ pending = <<>>

\* A session resolved after an onProgress invocation threw and a later
\* invocation was still made.
C19_Witness ==
  \E s \in 1..Len(sessions) :
    /\ RanToCompletion(s)
    /\ \E k \in 1..Len(progressCalls[s]), j \in 1..Len(progressCalls[s]) :
         /\ k < j
         /\ progressCalls[s][k].threw
         /\ ~progressCalls[s][j].threw

\* The characters a string may hold to count as composed of supported
\* characters: the keys of MORSE_CODE_MAP and, the comparison being made
\* after conversion to upper case, the lower-case letters.
IsSupportedText(s) ==
  \A i \in 1..Len(s) :
    \/ \E k \in 1..Len(getSupportedCharacters) : getSupportedCharacters[k] = s[i]
    \/ \E k \in 1..Len(LowerCase) : LowerCase[k] = s[i]

\* s converted to upper case.
InUpperCase(s) ==
  [i \in 1..Len(s) |->
     IF \E k \in 1..26 : LowerCase[k] = s[i]
     THEN UpperCase[CHOOSE k \in 1..26 : LowerCase[k] = s[i]]
     ELSE s[i]]

\* C20: for a string of supported characters, translating to Morse and
\* the result back to text gives the string in upper case.
C20_RoundTripUpperCase ==
  (codec.phase = "decoded" /\ IsSupportedText(codec.input)) =>
    /\ ~codec.text.threw
    /\ codec.text.output = InUpperCase(codec.input)

\* A string of several supported characters with a lower-case letter, a
\* '/' and a '.' in it has made the round trip.
C20_Witness ==
  /\ codec.phase = "decoded"
  /\ IsSupportedText(codec.input)
  /\ Len(codec.input) = MaxCodecLen
  /\ \E i \in 1..Len(codec.input) : codec.input[i] = "e"
  /\ \E i \in 1..Len(codec.input) : codec.input[i] = "/"
  /\ \E i \in 1..Len(codec.input) : codec.input[i] = "."

\* The characters of the text that translateToMorse looks up: those of the
\* upper-cased text that are not white space.
LookedUp(text) ==
  SelectSeq(InUpperCase(text), LAMBDA c : c \notin WhiteSpace)

InTable(c) == \E k \in 1..Len(MORSE_KEYS) : MORSE_KEYS[k] = c

\* The pattern groups of a Morse output: its pieces between white space
\* that are not the word separator.
PatternGroups(morse) ==
  SelectSeq(SplitWs(morse), LAMBDA g : g # <<>> /\ g # <<"/">>)

\* C21: translate(text,'toMorse') returns isValid = true; the output holds
\* one pattern per character of the table, in order, and none for any other
\* character; unsupportedChars holds each other character exactly once; and
\* errors holds one warning when unsupportedChars is non-empty, none otherwise.
C21_UnsupportedFilteredWithWarning ==
  codec.phase = "encoded" =>
    LET r       == codec.morse
        chars   == LookedUp(codec.input)
        kept    == SelectSeq(chars, InTable)
        dropped == SelectSeq(chars, LAMBDA c : ~InTable(c))
    IN  /\ ~r.threw
        /\ r.isValid
        /\ PatternGroups(r.output) = [k \in 1..Len(kept) |-> MORSE_CODE_MAP[kept[k]]]
        /\ { r.unsupportedChars[k] : k \in 1..Len(r.unsupportedChars) }
             = { dropped[k] : k \in 1..Len(dropped) }
        /\ \A j \in 1..Len(r.unsupportedChars), k \in 1..Len(r.unsupportedChars) :
             r.unsupportedChars[j] = r.unsupportedChars[k] => j = k
        /\ Len(r.errors) = IF r.unsupportedChars = <<>> THEN 0 ELSE 1
        /\ \A k \in 1..Len(r.errors) :
             r.errors[k] = [kind |-> "Warning", what |-> r.unsupportedChars]

\* A text with the same unsupported character twice around a supported one
\* has been translated.
C21_Witness ==
  /\ codec.phase = "encoded"
  /\ codec.input = <<"~", "e", "~">>
  /\ codec.morse.unsupportedChars = <<"~">>
  /\ codec.morse.output = <<".">>

\* The groups of one Morse word: its non-empty pieces between white space.
GroupsOf(word) == SelectSeq(SplitWs(word), LAMBDA g : g # <<>>)

\* The groups of each word of a Morse sequence that has a group at all.
WordGroups(morse) ==
  SelectSeq([w \in 1..Len(SplitSlash(morse)) |-> GroupsOf(SplitSlash(morse)[w])],
            LAMBDA gs : gs # <<>>)

Recognized(group) == group \in DOMAIN TEXT_FROM_MORSE

RECURSIVE Flatten(_)
Flatten(seqs) == IF seqs = <<>> THEN <<>> ELSE Head(seqs) \o Flatten(Tail(seqs))

\* C22: translate(m,'toText') decodes every group by the reverse map and
\* puts one '?' for every group that is no key of it; errors names exactly
\* the unrecognized groups, in order; isValid is false exactly when there is
\* one; the decoded words are joined by a single space.
C22_InvalidGroupsMarked ==
  codec.phase = "decodedMorse" =>
    LET r       == codec.text
        words   == WordGroups(codec.input)
        decoded == [w \in 1..Len(words) |->
                      [k \in 1..Len(words[w]) |->
                         IF Recognized(words[w][k])
                         THEN TEXT_FROM_MORSE[words[w][k]] ELSE "?"]]
        unknown == SelectSeq(Flatten(words), LAMBDA g : ~Recognized(g))
    IN  /\ ~r.threw
        /\ r.output = Join(decoded, <<" ">>)
        /\ r.errors = [k \in 1..Len(unknown) |->
                         [kind |-> "Invalid Morse sequence", what |-> unknown[k]]]
        /\ r.isValid <=> unknown = <<>>

\* C23: translate() with a direction other than 'toMorse' and 'toText'
\* throws, whatever the input, and returns no result.
C23_InvalidDirectionThrows ==
  (codec.phase = "translated" /\ codec.direction \notin {"toMorse", "toText"}) =>
    /\ codec.result.threw
    /\ DOMAIN codec.result = {"threw", "message"}

\* translate() has been called with null or undefined input and a
\* direction it does not know.
C23_Witness ==
  /\ codec.phase = "translated"
  /\ codec.input = Null
  /\ codec.direction = "tomorse"
  /\ codec.result.threw

\* null, undefined, the empty string or a string of white space only.
IsEmptyInput(input) ==
  input = Null \/ \A i \in 1..Len(input) : input[i] \in {" ", "\t", "\n"}

\* C24: for either valid direction, translate() of null, undefined, empty
\* or whitespace-only input returns output "", errors [], unsupportedChars
\* [] and isValid true and throws nothing.
C24_EmptyInputEmptyResult ==
  (/\ codec.phase = "translated"
   /\ codec.direction \in {"toMorse", "toText"}
   /\ IsEmptyInput(codec.input)) =>
    codec.result = [threw |-> FALSE, output |-> <<>>, errors |-> <<>>,
                    unsupportedChars |-> <<>>, isValid |-> TRUE]

\* translate() has been called with null or undefined input in the
\* direction 'toText'.
C24_Witness ==
  /\ codec.phase = "translated"
  /\ codec.input = Null
  /\ codec.direction = "toText"
  /\ ~codec.result.threw

HasDelimiter(s) == \E i \in 1..Len(s) : s[i] = " " \/ s[i] = "/"

\* C25: for a sequence with a space or a '/' in it, validateMorse is true
\* exactly when the sequence holds only '.', '-', white space and '/' and
\* every group between white space and '/' is a key of the reverse map.
C25_DelimitedGroupsAreKeys ==
  (codec.phase = "validated" /\ codec.input # Null /\ HasDelimiter(codec.input)) =>
    (codec.valid <=>
       /\ \A i \in 1..Len(codec.input) :
            codec.input[i] \in {".", "-", "/", " ", "\t", "\n"}
       /\ \A g \in { Flatten(WordGroups(codec.input))[k] :
                       k \in 1..Len(Flatten(WordGroups(codec.input))) } :
            Recognized(g))

\* A sequence of a valid group, a space and a group of four dashes, which
\* is no key, has been rejected.
C25_Witness ==
  /\ codec.phase = "validated"
  /\ codec.input = <<".", " ", "-", "-", "-", "-">>
  /\ ~codec.valid

\* The longest stretch of one symbol repeated, or of a pair repeated, that
\* makes up the whole sequence.
IsDegenerateRun(s) ==
  \/ Len(s) >= 7 /\ \A i \in 1..Len(s) : s[i] = "."
  \/ Len(s) >= 6 /\ \A i \in 1..Len(s) : s[i] = "-"
  \/ \E n \in 6..Len(s) :
       /\ Len(s) = 2 * n
       /\ \/ \A i \in 1..n : s[2 * i - 1] = "." /\ s[2 * i] = "-"
          \/ \A i \in 1..n : s[2 * i - 1] = "-" /\ s[2 * i] = "."

Digits == {"0", "1", "2", "3", "4", "5", "6", "7", "8", "9"}

Letters == { UpperCase[k] : k \in 1..Len(UpperCase) }

\* C27: the forward table has 54 keys, 26 letters, 10 digits and 18 other
\* marks; its patterns are non-empty strings of '.' and '-', no two alike;
\* the reverse map has 54 entries and takes the pattern of every key back
\* to that key; getSupportedCharacters() lists the 54 keys.
C27_TableIsBijective ==
  LET keys == DOMAIN MORSE_CODE_MAP
  IN  /\ Cardinality(keys) = 54
      /\ Cardinality(keys \cap Letters) = 26
      /\ Cardinality(keys \cap Digits) = 10
      /\ Cardinality(keys \ (Letters \cup Digits)) = 18
      /\ \A c \in keys :
           /\ MORSE_CODE_MAP[c] # <<>>
           /\ \A i \in 1..Len(MORSE_CODE_MAP[c]) : MORSE_CODE_MAP[c][i] \in {".", "-"}
      /\ \A c \in keys, e \in keys :
           MORSE_CODE_MAP[c] = MORSE_CODE_MAP[e] => c = e
      /\ Cardinality(DOMAIN TEXT_FROM_MORSE) = 54
      /\ \A c \in keys :
           /\ MORSE_CODE_MAP[c] \in DOMAIN TEXT_FROM_MORSE
           /\ TEXT_FROM_MORSE[MORSE_CODE_MAP[c]] = c
      /\ codec.phase = "listed" =>
           /\ Len(codec.chars) = 54
           /\ { codec.chars[k] : k \in 1..Len(codec.chars) } = keys

\* getSupportedCharacters() has returned its list, with 'A', 'Z', '0', '9',
\* '.' and '@' in it.
C27_Witness ==
  /\ codec.phase = "listed"
  /\ {"A", "Z", "0", "9", ".", "@"} \subseteq
       { codec.chars[k] : k \in 1..Len(codec.chars) }

\* The words of a text that hold a character of the table, each reduced to
\* its characters of the table.
SupportedWords(text) ==
  SelectSeq([w \in 1..Len(SplitWs(InUpperCase(text))) |->
               SelectSeq(SplitWs(InUpperCase(text))[w], InTable)],
            LAMBDA word : word # <<>>)

\* The number of places where " / " stands in a Morse output.
SeparatorCount(morse) ==
  Cardinality({ i \in 1..Len(morse) - 2 :
                  morse[i] = " " /\ morse[i + 1] = "/" /\ morse[i + 2] = " " })

\* C28: in the output of translate(text,'toMorse') the patterns of a word
\* are joined by one space and the words by " / "; with n >= 1 words that
\* hold a supported character there are n - 1 separators (none when there
\* is no such word, the output being empty then).
C28_WordsJoinedBySlash ==
  codec.phase = "encoded" =>
    LET words == SupportedWords(codec.input)
        morse == [w \in 1..Len(words) |->
                    Join([k \in 1..Len(words[w]) |-> MORSE_CODE_MAP[words[w][k]]],
                         <<" ">>)]
    IN  /\ codec.morse.output = Join(morse, <<" ", "/", " ">>)
        /\ Len(words) >= 1 => SeparatorCount(codec.morse.output) = Len(words) - 1
        /\ Len(words) = 0 => codec.morse.output = <<>>
        /\ \A i \in 1..Len(codec.morse.output) - 1 :
             ~(codec.morse.output[i] = " " /\ codec.morse.output[i + 1] = " ")

\* A text of two words of supported characters around a word without one
\* has been translated into two Morse words and one separator.
C28_Witness ==
  /\ codec.phase = "encoded"
  /\ codec.input = <<"e", " ", "~", " ", "T">>
  /\ codec.morse.output = <<".", " ", "/", " ", "-">>

\* A tone is un-stopped while its scheduled end lies ahead and nothing
\* has called oscillator.stop() on it.
Unstopped(osc) == osc.stopTime > clock /\ ~osc.hardStopped

\* C29: after handleClear has returned no tone of any session remains
\* un-stopped in the player.
C29_ClearStopsAudio ==
  [][ lastCall'.name = "handleClear" =>
        \A k \in 1..Len(oscillators') :
          ~(oscillators'[k].stopTime > clock' /\ ~oscillators'[k].hardStopped) ]_vars

\* C30: within a session the tones start at strictly increasing times in
\* sequence order; the onProgress invocations are made in that order, the
\* k-th for the k-th tone, at strictly increasing offsets; and once the
\* promise is resolved every onProgress invocation of the session has been
\* made, none of them later than the resolution.
C30_EventsInOffsetOrder ==
  \A s \in 1..Len(sessions) :
    LET tones == OscillatorsOf(s)
        calls == progressCalls[s]
    IN  /\ \A k \in 1..Len(tones) - 1 :
             tones[k].startTime < tones[k + 1].startTime
        /\ Len(calls) <= Len(tones)
        /\ \A k \in 1..Len(calls) :
             /\ calls[k].scheduledAt >= tones[k].startTime
             /\ k < Len(tones) => calls[k].scheduledAt <= tones[k + 1].startTime
        /\ \A k \in 1..Len(calls) - 1 :
             /\ calls[k].scheduledAt < calls[k + 1].scheduledAt
             /\ calls[k].at <= calls[k + 1].at
        /\ \A i \in 1..Len(timers), j \in 1..Len(timers) :
             ( /\ timers[i].session = s /\ timers[j].session = s
               /\ timers[i].kind = "progress" /\ timers[j].kind = "complete" )
             => timers[i].at <= timers[j].at /\ i < j
        /\ sessions[s].promise = "resolved" =>
             /\ PendingProgress(s) = <<>>
             /\ sessions[s].onProgress => Len(calls) = Len(tones)
             /\ \A k \in 1..Len(calls) : calls[k].at <= sessions[s].settledAt

\* A session of several tones with a progress callback has resolved after
\* all its invocations.
C30_Witness ==
  \E s \in 1..Len(sessions) :
    /\ sessions[s].promise = "resolved" /\ sessions[s].scheduled
    /\ Len(OscillatorsOf(s)) >= 3
    /\ Len(progressCalls[s]) = Len(OscillatorsOf(s))
    /\ progressCalls[s][3].at < sessions[s].settledAt

\* Session s is active: its promise is pending and nothing has cancelled it.
IsActive(s) ==
  sessions[s].promise = "pending" /\ sessions[s].cancelledBy = "none"

\* C31: a play() call made while a session is active stops every tone of
\* that session that has not ended, whatever sequence the call is given.
C31_PlayStopsActiveSession ==
  [][ IsPlayStep =>
        \A k \in 1..Len(oscillators) :
          (IsActive(oscillators[k].session) /\ oscillators[k].stopTime > clock)
            => oscillators'[k].hardStopped ]_vars

\* A config object that omits a field.
OmitsField(config) ==
  config # NoConfig /\ DOMAIN config # DOMAIN DEFAULT_CONFIG

\* The field of a config object, or the default where it is omitted.
FieldOr(config, field, default) ==
  IF field \in DOMAIN config THEN config[field] ELSE default

\* The lengths, in units, of the tones of a sequence.
ToneUnits(seq) ==
  [k \in 1..Len(TonePositions(seq)) |->
     IF seq[TonePositions(seq)[k]] = "." THEN 1 ELSE 3]

\* C32: a play() given a config object that omits a field schedules every
\* tone of its sequence with the omitted fields at their defaults:
\* frequency 600, volume 0.3, unit duration of the current speed setting.
C32_OmittedFieldsDefaulted ==
  \A s \in 1..Len(sessions) :
    (sessions[s].scheduled /\ OmitsField(sessions[s].config)) =>
      LET c     == sessions[s].config
          tones == OscillatorsOf(s)
          units == ToneUnits(sessions[s].sequence)
          unit  == FieldOr(c, "unitDuration", currentConfig.unitDuration)
      IN  /\ sessions[s].promise # "rejected"
          /\ Len(tones) = Len(units)
          /\ \A k \in 1..Len(tones) :
               /\ tones[k].frequency = FieldOr(c, "frequency", 600)
               /\ tones[k].volume = FieldOr(c, "volume", 30)
               /\ tones[k].stopTime - tones[k].startTime = units[k] * unit

\* C33: while a playback started from the Play button is in progress (its
\* promise pending, nothing having stopped it) state.isPlaying is true and
\* the Play button is disabled, also when an earlier playback was stopped
\* and this one started before the earlier one's computed end.
C33_ControlsFollowPlayback ==
  \A s \in 1..Len(sessions) :
    IsActive(s) =>
      ui.isPlaying /\ ui.playDisabled

\* C34: copy(text) never rejects; its result has success = true exactly
\* when the text reached the clipboard and carries an error otherwise; with
\* the Clipboard API present writeText is the only mechanism called, also
\* when it rejects, and execCommand is called only with the API absent.
C34_CopyNeverRejects ==
  \A k \in 1..Len(clipboard.copies) :
    LET c == clipboard.copies[k]
    IN  /\ c.promise = "resolved"
        /\ c.result.success = c.wrote
        /\ c.result.success => DOMAIN c.result = {"success"}
        /\ ~c.result.success => DOMAIN c.result = {"success", "error"}
        /\ clipboard.hasApi => c.tried = <<"writeText">>
        /\ (\E i \in 1..Len(c.tried) : c.tried[i] = "execCommand")
             => ~clipboard.hasApi

\* With the Clipboard API present a writeText was rejected and copy()
\* resolved to a failure; a later copy() succeeded.
C34_Witness ==
  /\ clipboard.hasApi
  /\ Len(clipboard.copies) = 2
  /\ ~clipboard.copies[1].result.success
  /\ clipboard.copies[1].promise = "resolved"
  /\ clipboard.copies[2].result.success
  /\ clipboard.system = clipboard.copies[2].text

\* C35: when the completion timer of a session that was stopped or
\* pre-empted by a later play() fires, isPlaying and the tracked tones stay
\* as they were.
C35_StaleTimerLeavesPlayer ==
  [][ \A i \in 1..Len(timers) :
        ( /\ timers[i].kind = "complete"
          /\ timers[i].at <= clock
          /\ timers' = RemoveAt(timers, i)
          /\ sessions[timers[i].session].cancelledBy # "none" )
        => /\ isPlaying' = isPlaying
           /\ scheduledNodes' = scheduledNodes ]_vars

C37_EncodedIsWellFormed ==
  (codec.phase = "roundTrip" /\ codec.morse.output # <<>>) =>
    LET output == codec.morse.output
        words  == SplitSlash(output)
    IN  /\ output[1] \notin {" ", "/"}
        /\ output[Len(output)] \notin {" ", "/"}
        /\ \A w \in 1..Len(words) : GroupsOf(words[w]) # <<>>
        /\ codec.valid
        /\ ~codec.text.threw
        /\ codec.text.isValid

\* A text whose middle word holds no supported character was encoded to
\* two words, validated and decoded.
C37_Witness ==
  /\ codec.phase = "roundTrip"
  /\ codec.input = <<"e", " ", "~", " ", "T">>
  /\ codec.morse.output = <<".", " ", "/", " ", "-">>
  /\ codec.valid
  /\ codec.text.isValid

\* A text holds only supported characters and white space.
IsSupportedOrSpace(s) ==
  \A i \in 1..Len(s) : s[i] \in WhiteSpace \/ IsSupportedText(<<s[i]>>)

\* C38: for a text of supported characters and white space, translating to
\* Morse and back gives the words of the text in upper case joined by
\* single spaces, without leading or trailing white space.
C38_RoundTripCollapsesSpace ==
  (codec.phase = "decoded" /\ IsSupportedOrSpace(codec.input)) =>
    /\ ~codec.text.threw
    /\ codec.text.isValid
    /\ codec.text.output = Join(SupportedWords(codec.input), <<" ">>)

\* A text with leading and trailing white space and runs of it between
\* its words has made the round trip.
C38_Witness ==
  /\ codec.phase = "decoded"
  /\ codec.input = <<" ", "e", "\t", "T", "/", "\n", ".", " ">>
  /\ codec.text.output = <<"E", " ", "T", "/", " ", ".">>

\* C39: with audio supported, after every handler of the page the Play
\* button is disabled exactly when state.isPlaying is true.
C39_PlayButtonFollowsFlag ==
  (ui.initialized /\ ui.audioSupported) => (ui.playDisabled <=> ui.isPlaying)

\* A playback started from the Play button has completed and the button is
\* enabled again, after it was disabled while the playback ran.
C39_Witness ==
  /\ ui.initialized /\ ui.audioSupported
  /\ ~ui.playDisabled /\ ~ui.isPlaying
  /\ \E s \in 1..Len(sessions) : RanToCompletion(s)
  /\ lastCall.name = "other"

\* C40: in every state of the player in which isPlaying is false no
\* scheduled tone is tracked.
C40_IdleTracksNothing ==
  ~isPlaying => scheduledNodes = <<>>

====
